---- MODULE Spec2Model ----
(***************************************************************************)
(* The audio engine of the interactive oscillator (the React hook          *)
(* useAudioEngine and the App component that drives it), on the web:       *)
(* Platform.OS is 'web' and usingFallbackAudio stays false (nothing ever   *)
(* sets it true), so shouldUseWebAudio() is true.  The user agent is a     *)
(* desktop browser or mobile Safari (isMobileSafari), where togglePlayback *)
(* plays an HTML5 audio element and falls back to tryWebAudioFallback.     *)
(*                                                                         *)
(* React semantics.  The handlers are closures of one render: they read    *)
(* the state values of the render that created them, and a setState call   *)
(* only takes effect in the next render.  The refs (audioContextRef,       *)
(* oscillatorRef, gainNodeRef, analyserRef, waveformSwitchTimeoutRef) are  *)
(* shared mutable cells.  In an action the unprimed state variables are    *)
(* the closure of the handler and the primed ones the committed state of   *)
(* the next render; a callback that runs later (a timer, the continuation  *)
(* of an await) carries the closure it was created with.                   *)
(*                                                                         *)
(* Numbers.  Frequencies are in Hz.  Amplitude and attenuation are in      *)
(* tenths (3 is 0.3).  A compensation factor is in units of 1e-5 and a     *)
(* gain in units of 1e-7, so amplitude * 0.8 * compensation is             *)
(* amplitude * 8 * compensation.  NaN and the infinities are sentinels     *)
(* outside every range the program works with.  A sample of the buffer is  *)
(* in units of 1/1280000, and a frequency computed from a touch in units   *)
(* of 1e-5 Hz.                                                             *)
(***************************************************************************)
EXTENDS Integers, Sequences, FiniteSets, Bags, TLC

VARIABLES
    isMobileSafari,           \* the user agent is an iOS device
    frequencyBinCount,        \* the length of the analyser's buffer
    phase,                    \* "rendered" (before the mount effects), "mounted", "unmounted"
    audioInitialized,         \* App state
    isPlaying, frequency, waveType, amplitude, highFreqAttenuation, audioData,
    audioContextRef,          \* TRUE: holds an AudioContext
    ctxState,                 \* state of that AudioContext
    gainNodeRef,              \* TRUE: holds the gain node
    gainValue,                \* the gain last set on the gain node
    analyserRef,              \* TRUE: holds the analyser
    audioElementRef,          \* TRUE: holds an HTML5 audio element that plays
    oscillatorRef,            \* 0: null, else an index into oscillators
    oscillators,              \* the oscillators that are started and not stopped
    stopWarned,               \* TRUE: the last stopWebAudioOscillator that had an
                              \* oscillator to stop caught an exception and logged it
    waveformSwitchTimeoutRef, \* "null", or the handle of the timeout armed last:
                              \* "pending" (it is the last of timers) or "fired"
    timers,                   \* the pending timeouts, in the order they were armed
    animationFrames,          \* the callbacks of requestAnimationFrame that are
                              \* requested and have neither run nor been cancelled
    inflight,                 \* bag of the async functions suspended at
                              \* await audioContext.resume(), and of the
                              \* audio.play() promises not yet settled
    microtask                 \* the continuation that runs before any other event

vars == <<isMobileSafari, frequencyBinCount, audioElementRef, phase, audioInitialized, isPlaying, frequency, waveType, amplitude,
          highFreqAttenuation, audioData, audioContextRef, ctxState, gainNodeRef,
          gainValue, analyserRef, oscillatorRef, oscillators, stopWarned,
          waveformSwitchTimeoutRef, timers, animationFrames, inflight, microtask>>

reactState == <<isPlaying, frequency, waveType, amplitude, highFreqAttenuation>>
audioRefs == <<audioContextRef, ctxState, gainNodeRef, analyserRef>>
voice == <<oscillatorRef, oscillators>>
restart == <<waveformSwitchTimeoutRef, timers>>
platform == <<isMobileSafari, frequencyBinCount, audioElementRef>>

----------------------------------------------------------------------------
(* Bounds of the model *)

\* timeouts pending at once, and async functions suspended at once
MaxTimer == 2
MaxInFlight == 1
\* oscillators started and not stopped at once
MaxOscillators == 2

----------------------------------------------------------------------------
(* JavaScript numbers *)

NaN == -2000000000
Infinity == 1000000000
NegInfinity == -1000000000

isNaN(x) == x = NaN
isFinite(x) == x \notin {NaN, Infinity, NegInfinity}

MathMax(a, b) == IF a >= b THEN a ELSE b
MathMin(a, b) == IF a <= b THEN a ELSE b

\* Math.pow(1000 / f, e / 1000) in units of 1e-4, tabulated on the
\* frequencies above 1000 Hz and the exponents the model uses.
PowTable ==
    <<1001, 0>> :> 10000 @@ <<1001, 60>> :> 9999 @@ <<1001, 80>> :> 9999 @@ <<1001, 120>> :> 9999 @@
    <<1001, 160>> :> 9998 @@ <<1001, 180>> :> 9998 @@ <<1001, 200>> :> 9998 @@ <<1001, 240>> :> 9998 @@
    <<1001, 300>> :> 9997 @@ <<1001, 320>> :> 9997 @@ <<1001, 360>> :> 9996 @@ <<1001, 400>> :> 9996 @@
    <<1001, 420>> :> 9996 @@ <<1001, 480>> :> 9995 @@ <<1001, 540>> :> 9995 @@ <<1001, 560>> :> 9994 @@
    <<1001, 600>> :> 9994 @@ <<1001, 640>> :> 9994 @@ <<1001, 720>> :> 9993 @@ <<1001, 800>> :> 9992 @@
    <<1100, 0>> :> 10000 @@ <<1100, 60>> :> 9943 @@ <<1100, 80>> :> 9924 @@ <<1100, 120>> :> 9886 @@
    <<1100, 160>> :> 9849 @@ <<1100, 180>> :> 9830 @@ <<1100, 200>> :> 9811 @@ <<1100, 240>> :> 9774 @@
    <<1100, 300>> :> 9718 @@ <<1100, 320>> :> 9700 @@ <<1100, 360>> :> 9663 @@ <<1100, 400>> :> 9626 @@
    <<1100, 420>> :> 9608 @@ <<1100, 480>> :> 9553 @@ <<1100, 540>> :> 9498 @@ <<1100, 560>> :> 9480 @@
    <<1100, 600>> :> 9444 @@ <<1100, 640>> :> 9408 @@ <<1100, 720>> :> 9337 @@ <<1100, 800>> :> 9266 @@
    <<2000, 0>> :> 10000 @@ <<2000, 60>> :> 9593 @@ <<2000, 80>> :> 9461 @@ <<2000, 120>> :> 9202 @@
    <<2000, 160>> :> 8950 @@ <<2000, 180>> :> 8827 @@ <<2000, 200>> :> 8706 @@ <<2000, 240>> :> 8467 @@
    <<2000, 300>> :> 8123 @@ <<2000, 320>> :> 8011 @@ <<2000, 360>> :> 7792 @@ <<2000, 400>> :> 7579 @@
    <<2000, 420>> :> 7474 @@ <<2000, 480>> :> 7170 @@ <<2000, 540>> :> 6878 @@ <<2000, 560>> :> 6783 @@
    <<2000, 600>> :> 6598 @@ <<2000, 640>> :> 6417 @@ <<2000, 720>> :> 6071 @@ <<2000, 800>> :> 5743 @@
    <<4000, 0>> :> 10000 @@ <<4000, 60>> :> 9202 @@ <<4000, 80>> :> 8950 @@ <<4000, 120>> :> 8467 @@
    <<4000, 160>> :> 8011 @@ <<4000, 180>> :> 7792 @@ <<4000, 200>> :> 7579 @@ <<4000, 240>> :> 7170 @@
    <<4000, 300>> :> 6598 @@ <<4000, 320>> :> 6417 @@ <<4000, 360>> :> 6071 @@ <<4000, 400>> :> 5743 @@
    <<4000, 420>> :> 5586 @@ <<4000, 480>> :> 5141 @@ <<4000, 540>> :> 4730 @@ <<4000, 560>> :> 4601 @@
    <<4000, 600>> :> 4353 @@ <<4000, 640>> :> 4118 @@ <<4000, 720>> :> 3686 @@ <<4000, 800>> :> 3299 @@
    <<4001, 0>> :> 10000 @@ <<4001, 60>> :> 9202 @@ <<4001, 80>> :> 8950 @@ <<4001, 120>> :> 8467 @@
    <<4001, 160>> :> 8010 @@ <<4001, 180>> :> 7791 @@ <<4001, 200>> :> 7578 @@ <<4001, 240>> :> 7169 @@
    <<4001, 300>> :> 6597 @@ <<4001, 320>> :> 6417 @@ <<4001, 360>> :> 6070 @@ <<4001, 400>> :> 5743 @@
    <<4001, 420>> :> 5586 @@ <<4001, 480>> :> 5140 @@ <<4001, 540>> :> 4730 @@ <<4001, 560>> :> 4600 @@
    <<4001, 600>> :> 4352 @@ <<4001, 640>> :> 4117 @@ <<4001, 720>> :> 3685 @@ <<4001, 800>> :> 3298 @@
    <<8000, 0>> :> 10000 @@ <<8000, 60>> :> 8827 @@ <<8000, 80>> :> 8467 @@ <<8000, 120>> :> 7792 @@
    <<8000, 160>> :> 7170 @@ <<8000, 180>> :> 6878 @@ <<8000, 200>> :> 6598 @@ <<8000, 240>> :> 6071 @@
    <<8000, 300>> :> 5359 @@ <<8000, 320>> :> 5141 @@ <<8000, 360>> :> 4730 @@ <<8000, 400>> :> 4353 @@
    <<8000, 420>> :> 4175 @@ <<8000, 480>> :> 3686 @@ <<8000, 540>> :> 3253 @@ <<8000, 560>> :> 3121 @@
    <<8000, 600>> :> 2872 @@ <<8000, 640>> :> 2643 @@ <<8000, 720>> :> 2238 @@ <<8000, 800>> :> 1895 @@
    <<20000, 0>> :> 10000 @@ <<20000, 60>> :> 8355 @@ <<20000, 80>> :> 7869 @@ <<20000, 120>> :> 6980 @@
    <<20000, 160>> :> 6192 @@ <<20000, 180>> :> 5832 @@ <<20000, 200>> :> 5493 @@ <<20000, 240>> :> 4873 @@
    <<20000, 300>> :> 4071 @@ <<20000, 320>> :> 3834 @@ <<20000, 360>> :> 3401 @@ <<20000, 400>> :> 3017 @@
    <<20000, 420>> :> 2842 @@ <<20000, 480>> :> 2374 @@ <<20000, 540>> :> 1984 @@ <<20000, 560>> :> 1868 @@
    <<20000, 600>> :> 1657 @@ <<20000, 640>> :> 1470 @@ <<20000, 720>> :> 1157 @@ <<20000, 800>> :> 910

MathPow(f, e) == PowTable[<<f, e>>]

----------------------------------------------------------------------------
(* Inputs the handlers are called with *)

WaveTypes == {"sine", "square", "sawtooth", "triangle"}
FreqInputs == {NaN, 2000}
WaveInputs == {"sine", "square"}
AmpInputs == {NaN, 10}
AttInputs == {NaN, 5}
\* where the platform throws in startWebAudioOscillator: nowhere, or before start()
StartFailures == {"none", "throws"}
\* the state in which the platform creates an AudioContext
CreatedStates == {"suspended", "running"}
\* where the platform throws in stopWebAudioOscillator: nowhere, in stop() or
\* in disconnect()
StopFailures == {"none", "stop", "disconnect"}
\* audio.play() of the HTML5 element: it throws, returns a promise or returns
\* nothing (browsers older than the promise-returning play())
PlayOutcomes == {"throws", "promise", "undefined"}

----------------------------------------------------------------------------
(* Pure functions of the engine *)

waveCompensation(type) ==
    CASE type = "sine" -> 10
      [] type = "triangle" -> 7
      [] type = "sawtooth" -> 5
      [] type = "square" -> 3
      [] OTHER -> 10

\* Variants of getFrequencyAttenuation: the middle band without the user's
\* attenuation, the low band boosted to 1.3, the band limits exclusive, and
\* the top band without the user's attenuation.
getFrequencyAttenuationNeutralMid(freq, userAttenuation) ==
    IF freq <= 200 THEN 12000
    ELSE IF freq <= 1000 THEN 10000
    ELSE IF freq <= 4000
         THEN (MathPow(freq, 200) * MathPow(freq, userAttenuation * 60)) \div 10000
         ELSE (MathPow(freq, 300) * MathPow(freq, userAttenuation * 80)) \div 10000

getFrequencyAttenuationBoosted(freq, userAttenuation) ==
    IF freq <= 200 THEN 13000
    ELSE IF freq <= 1000 THEN 10000 - userAttenuation * 100
    ELSE IF freq <= 4000
         THEN (MathPow(freq, 200) * MathPow(freq, userAttenuation * 60)) \div 10000
         ELSE (MathPow(freq, 300) * MathPow(freq, userAttenuation * 80)) \div 10000

getFrequencyAttenuationExclusive(freq, userAttenuation) ==
    IF freq < 200 THEN 12000
    ELSE IF freq <= 1000 THEN 10000 - userAttenuation * 100
    ELSE IF freq <= 4000
         THEN (MathPow(freq, 200) * MathPow(freq, userAttenuation * 60)) \div 10000
         ELSE (MathPow(freq, 300) * MathPow(freq, userAttenuation * 80)) \div 10000

getFrequencyAttenuationFixedTop(freq, userAttenuation) ==
    IF freq <= 200 THEN 12000
    ELSE IF freq <= 1000 THEN 10000 - userAttenuation * 100
    ELSE IF freq <= 4000
         THEN (MathPow(freq, 200) * MathPow(freq, userAttenuation * 60)) \div 10000
         ELSE (MathPow(freq, 300) * MathPow(freq, 0)) \div 10000

getFrequencyAttenuation(freq, userAttenuation) ==
    IF freq <= 200 THEN 12000
    ELSE IF freq <= 1000 THEN 10000 - userAttenuation * 100
    ELSE IF freq <= 4000
         THEN (MathPow(freq, 200) * MathPow(freq, userAttenuation * 60)) \div 10000
         ELSE (MathPow(freq, 300) * MathPow(freq, userAttenuation * 80)) \div 10000

getVolumeCompensation(type, freq, attenuationLevel) ==
    waveCompensation(type) * getFrequencyAttenuation(freq, attenuationLevel)

\* amplitude * 0.8 * compensation, after a variant without the factor 0.8
adjustedGainNoHeadroom(amp, compensation) == amp * 10 * compensation
adjustedGain(amp, compensation) == amp * 8 * compensation

\* The 1024 samples depend on the type and the amplitude alone (freq is unused).
\* Before it, a variant that draws a sine whatever the type, and one whose
\* samples depend on freq.
generateWaveformSineOnly(freq, type, amp) ==
    [src |-> "generated", waveType |-> "sine", amplitude |-> amp, len |-> 0]
generateWaveformOfFrequency(freq, type, amp) ==
    [src |-> "generated", waveType |-> type, amplitude |-> amp, len |-> freq]
generateWaveform(freq, type, amp) ==
    [src |-> "generated", waveType |-> type, amplitude |-> amp, len |-> 0]

\* Samples are in units of 1/1280000 (SampleOne), the shape of a waveform in
\* units of 1/128000 (ShapeOne): with the amplitude in tenths,
\* 128 + shape * amp * 127 is 128 * SampleOne + shape * amp * 127, exactly for
\* the three piecewise linear shapes.
ShapeOne == 128000
SampleOne == 1280000

\* Math.sin(2 * Math.PI * p / 256) for p = 0..64, in units of 1/128000
SinQuarter ==
  <<0, 3141, 6281, 9416, 12546, 15669, 18782, 21883,
  24972, 28045, 31101, 34139, 37156, 40151, 43122, 46067,
  48983, 51871, 54727, 57550, 60339, 63091, 65805, 68480,
  71113, 73703, 76250, 78750, 81202, 83606, 85960, 88261,
  90510, 92704, 94842, 96923, 98945, 100908, 102811, 104651,
  106428, 108141, 109789, 111371, 112886, 114333, 115711, 117019,
  118257, 119423, 120518, 121540, 122488, 123363, 124164, 124890,
  125541, 126116, 126615, 127037, 127384, 127653, 127846, 127961,
  128000>>

\* Math.sin at p / 256 of a turn, p in 0..255
MathSin(p) ==
    IF p <= 64 THEN SinQuarter[p + 1]
    ELSE IF p <= 128 THEN SinQuarter[129 - p]
    ELSE IF p <= 192 THEN -SinQuarter[p - 127]
    ELSE -SinQuarter[257 - p]

cycles == 4

\* The sample of generateWaveform's callback at index i before its conversion
\* to the 0..255 range.  p is the phase in 256ths of a turn.  Where the
\* sine is 0 mathematically, Math.sin of the rounded multiple of pi is a tiny
\* positive number at odd multiples and a tiny negative one at even multiples
\* (0 at t = 0 alone), and Math.sign makes +1 and -1 of them.
waveShape(type, i) ==
    LET p == ((i * cycles * 256) \div 1024) % 256
    IN  CASE type = "sine" -> MathSin(p)
          [] type = "square" ->
               IF i = 0 THEN 0
               ELSE IF p >= 1 /\ p <= 128 THEN ShapeOne ELSE -ShapeOne
          [] type = "sawtooth" -> ((2 * p - 256) * ShapeOne) \div 256
          [] type = "triangle" ->
               IF 2 * p < 256 THEN ((4 * p - 256) * ShapeOne) \div 256
               ELSE ((768 - 4 * p) * ShapeOne) \div 256
          [] OTHER -> MathSin(p)

\* A variant of the conversion with the amplitude fixed at 0.3.
waveformSampleFixedAmplitude(type, amp, i) ==
    128 * SampleOne + waveShape(type, i) * 3 * 127

\* 128 + sample * amp * 127: the entry at index i of generateWaveform(_, type, amp)
waveformSample(type, amp, i) ==
    128 * SampleOne + waveShape(type, i) * amp * 127

\* new Array(1024).fill(128)
InitialAudioData == [src |-> "flat", waveType |-> "sine", amplitude |-> 0, len |-> 0]

\* The bytes read from the analyser's buffer of len bytes, strided and padded
\* to 1024.
AnalyserData ==
    [src |-> "analyser", waveType |-> "sine", amplitude |-> 0,
     len |-> frequencyBinCount]

\* analyser.fftSize = 2048; frequencyBinCount is half of it
fftSize == 2048

\* Number of samples the striding loop of updateAudioData collects.
downsampledLength(bufferLength) ==
    LET step == MathMax(1, bufferLength \div 1024)
        taken == (bufferLength + step - 1) \div step
    IN  MathMin(1024, taken)

\* Signals at the analyser, and the byte getByteTimeDomainData leaves at
\* index i of the Uint8Array for each.
TapSignals == {"silence", "floor", "ceiling", "ramp"}
TimeDomainByte(tap, i) ==
    CASE tap = "silence" -> 128
      [] tap = "floor" -> 0
      [] tap = "ceiling" -> 255
      [] OTHER -> i % 251

\* Variants of the downsampling: one that pads from the first 256 samples and
\* one that does not pad.
downsampledIndexNoPadding(bufferLength) ==
    LET step == MathMax(1, bufferLength \div 1024)
        taken == downsampledLength(bufferLength)
    IN  [pos \in 0..(taken - 1) |-> pos * step]

downsampledIndexPad256(bufferLength) ==
    LET step == MathMax(1, bufferLength \div 1024)
        taken == downsampledLength(bufferLength)
    IN  [pos \in 0..(IF taken >= 512 THEN 1023 ELSE taken - 1) |->
            IF pos < taken THEN pos * step ELSE (pos % 256) * step]

\* downsampledData of updateAudioData for a buffer of bufferLength bytes:
\* the index in dataArray of the byte at each of its positions.  The loop
\* pushes dataArray[0], dataArray[step], ...; the padding then pushes
\* downsampledData[length % 512], which is one of the first 512 it obtained.
downsampledIndex(bufferLength) ==
    LET step == MathMax(1, bufferLength \div 1024)
        taken == downsampledLength(bufferLength)
    IN  [pos \in 0..(IF taken >= 512 THEN 1023 ELSE taken - 1) |->
            IF pos < taken THEN pos * step ELSE (pos % 512) * step]

\* The array a value of audioData stands for, positions 0 to its length - 1,
\* with the signal tap at the analyser.
Samples(d, tap) ==
    CASE d.src = "flat" -> [pos \in 0..1023 |-> 128 * SampleOne]
      [] d.src = "generated" ->
           [pos \in 0..1023 |-> waveformSample(d.waveType, d.amplitude, pos)]
      [] OTHER ->
           LET index == downsampledIndex(d.len)
           IN  [pos \in DOMAIN index |-> TimeDomainByte(tap, index[pos]) * SampleOne]

\* The buffer updateAudioData sets, run in a render whose state is (f, t, a, playing).
updateAudioData(f, t, a, playing) ==
    IF analyserRef /\ playing /\ downsampledLength(frequencyBinCount) >= 512
    THEN AnalyserData
    ELSE generateWaveform(f, t, a)

\* The state a handler's closure holds.
Closure ==
    [isPlaying |-> isPlaying, frequency |-> frequency, waveType |-> waveType,
     amplitude |-> amplitude, highFreqAttenuation |-> highFreqAttenuation]

\* What the commit after a handler leaves in audioData: the handler's own
\* setAudioData(fromHandler), overwritten by the effect on
\* [frequency, waveType, amplitude, isPlaying] when one of them changed and
\* the new render is playing.
CommittedAudioData(fromHandler) ==
    IF isPlaying' /\ <<frequency, waveType, amplitude, isPlaying>>'
                       # <<frequency, waveType, amplitude, isPlaying>>
    THEN updateAudioData(frequency', waveType', amplitude', isPlaying')
    ELSE fromHandler

\* cancelAnimationFrame(animationId) in the cleanup of the animation effect:
\* animationId is the frame requested last, by the effect or by animate, so
\* the one pending frame goes.  Before it, a variant that cancels the frame
\* the effect itself requested, which has run by then.
cancelAnimationFrameFirst(frames) == frames
cancelAnimationFrame(frames) == IF frames > 0 THEN frames - 1 ELSE 0

\* The animation effect (on [isPlaying, frequency, waveType, amplitude]) in
\* the commit after a step: when one of them changed, the cleanup of its last
\* run cancels the pending frame and the new run requests one if the render
\* is playing; unmounting runs the cleanup alone.
AnimationEffect ==
    animationFrames' =
       IF phase = "mounted" /\ phase' = "unmounted"
       THEN cancelAnimationFrame(animationFrames)
       ELSE IF phase' = "mounted" /\ <<isPlaying, frequency, waveType, amplitude>>'
                                       # <<isPlaying, frequency, waveType, amplitude>>
            THEN cancelAnimationFrame(animationFrames) + (IF isPlaying' THEN 1 ELSE 0)
            ELSE animationFrames

----------------------------------------------------------------------------
(* The voice *)

Remove(s, i) == SubSeq(s, 1, i - 1) \o SubSeq(s, i + 1, Len(s))

safeFreq(f) == IF isNaN(f) \/ ~isFinite(f) THEN 440 ELSE f
safeAmplitudeStart(a) == IF isNaN(a) \/ ~isFinite(a) THEN 3 ELSE a
safeAmplitudeUpdate(a) == IF isNaN(a) \/ ~isFinite(a) THEN 5 ELSE a

\* startWebAudioOscillator(waveTypeParam) run in the render with closure c;
\* fail tells whether the platform throws while the oscillator is created and
\* configured (connecting it to a null gain node throws).  The result is the
\* new oscillatorRef, the oscillators and the gain.
startWebAudioOscillator(waveTypeParam, c, fail) ==
    LET f == safeFreq(c.frequency)
    IN  IF audioContextRef /\ oscillatorRef = 0
        THEN IF fail = "throws" \/ ~gainNodeRef
             THEN [ref |-> 0, oscs |-> oscillators, gain |-> gainValue]
             ELSE [ref |-> Len(oscillators) + 1,
                   oscs |-> Append(oscillators,
                                   [type |-> waveTypeParam, frequency |-> f]),
                   gain |-> adjustedGain(safeAmplitudeStart(c.amplitude),
                              getVolumeCompensation(waveTypeParam, f,
                                                    c.highFreqAttenuation))]
        ELSE [ref |-> oscillatorRef, oscs |-> oscillators, gain |-> gainValue]

\* A variant that stops an oscillator without looking at the ref.
stopWebAudioOscillatorUnguarded(thrown) ==
    [ref |-> 0,
     oscs |-> IF oscillators # <<>> THEN Remove(oscillators, Len(oscillators))
              ELSE oscillators,
     warned |-> thrown # "none"]

\* A variant without the try: the exception leaves the function before the
\* ref is cleared.
stopWebAudioOscillatorNoCatch(thrown) ==
    IF oscillatorRef # 0 /\ thrown = "none"
    THEN [ref |-> 0, oscs |-> Remove(oscillators, oscillatorRef), warned |-> FALSE]
    ELSE [ref |-> oscillatorRef, oscs |-> oscillators, warned |-> stopWarned]

\* stopWebAudioOscillator, thrown telling where the platform throws: the ref,
\* the oscillators and the log after it.  An oscillator whose stop() throws
\* is one that generates nothing any more; the catch clears the ref as the
\* try does.  With the ref null nothing runs.
stopWebAudioOscillator(thrown) ==
    IF oscillatorRef # 0
    THEN [ref |-> 0, oscs |-> Remove(oscillators, oscillatorRef),
          warned |-> thrown # "none"]
    ELSE [ref |-> 0, oscs |-> oscillators, warned |-> stopWarned]

\* The call of stopWebAudioOscillator in a handler.
StopVoice ==
    \E thrown \in StopFailures :
       LET stopped == stopWebAudioOscillator(thrown)
       IN  /\ oscillatorRef' = stopped.ref
           /\ oscillators' = stopped.oscs
           /\ stopWarned' = stopped.warned

\* updateWebAudioOscillator run in the render with closure c: the oscillators
\* and the gain after it.
updateWebAudioOscillatorStopping(c) ==
    LET f == safeFreq(c.frequency)
    IN  IF oscillatorRef # 0 /\ audioContextRef
        THEN [oscs |-> Remove(oscillators, oscillatorRef),
              gain |-> adjustedGain(safeAmplitudeUpdate(c.amplitude),
                         getVolumeCompensation(c.waveType, f, c.highFreqAttenuation))]
        ELSE [oscs |-> oscillators, gain |-> gainValue]
updateWebAudioOscillator(c) ==
    LET f == safeFreq(c.frequency)
    IN  IF oscillatorRef # 0 /\ audioContextRef
        THEN [oscs |-> [oscillators EXCEPT ![oscillatorRef].frequency = f],
              gain |-> adjustedGain(safeAmplitudeUpdate(c.amplitude),
                         getVolumeCompensation(c.waveType, f, c.highFreqAttenuation))]
        ELSE [oscs |-> oscillators, gain |-> gainValue]

\* A suspended or scheduled callback: its kind, the newType a restart captured
\* and the closure of the render that created it.
Task(kind, type, c) == [k |-> kind, newType |-> type, c |-> c]
DefaultClosure ==
    [isPlaying |-> FALSE, frequency |-> 440, waveType |-> "sine",
     amplitude |-> 3, highFreqAttenuation |-> 5]
NoTask == Task("none", "sine", DefaultClosure)
PlayTask == Task("play", "sine", DefaultClosure)
\* No handler is in the middle of its synchronous part.
Idle == microtask = NoTask
Interactive == phase = "mounted" /\ Idle

----------------------------------------------------------------------------
Init ==
    /\ isMobileSafari \in BOOLEAN
    /\ frequencyBinCount = fftSize \div 2
    /\ audioElementRef = FALSE
    /\ phase = "rendered"
    /\ audioInitialized = FALSE
    /\ isPlaying = FALSE
    /\ frequency = 440
    /\ waveType = "sine"
    /\ amplitude = 3
    /\ highFreqAttenuation = 5
    /\ audioData = InitialAudioData
    /\ audioContextRef = FALSE
    /\ ctxState = "none"
    /\ gainNodeRef = FALSE
    /\ gainValue = 0
    /\ analyserRef = FALSE
    /\ oscillatorRef = 0
    /\ oscillators = <<>>
    /\ stopWarned = FALSE
    /\ waveformSwitchTimeoutRef = "null"
    /\ timers = <<>>
    /\ animationFrames = 0
    /\ inflight = EmptyBag
    /\ microtask = NoTask

----------------------------------------------------------------------------
(* Mount: the effect that initializes the default waveform *)

MountEffects ==
    /\ phase = "rendered"
    /\ UNCHANGED <<platform, stopWarned>>
    /\ phase' = "mounted"
    /\ audioData' = generateWaveform(frequency, waveType, amplitude)
    /\ UNCHANGED <<audioInitialized, reactState, audioRefs, gainValue, voice,
                   restart, inflight, microtask>>
    /\ AnimationEffect

----------------------------------------------------------------------------
(* handleButtonPress, initAudio and togglePlayback *)

\* gain.setValueAtTime(0.3, ...) of initAudio
InitialGain == 3000000

\* togglePlayback from "if (shouldUseWebAudio())" of the start branch on, in
\* the render with closure c: start the voice, setIsPlaying(true), setAudioData.
\* After the unmount the state setters do nothing.
StartPlayback(c, fail) ==
    LET r == startWebAudioOscillator(c.waveType, c, fail)
    IN  /\ oscillatorRef' = r.ref
        /\ oscillators' = r.oscs
        /\ gainValue' = r.gain
        /\ UNCHANGED <<frequency, waveType, amplitude, highFreqAttenuation>>
        /\ IF phase = "mounted"
           THEN /\ isPlaying' = TRUE
                /\ audioData' = CommittedAudioData(
                                   generateWaveform(c.frequency, c.waveType, c.amplitude))
           ELSE UNCHANGED <<isPlaying, audioData>>

\* The desktop branch of togglePlayback, up to its await or its end.
togglePlaybackDesktop(c, fail) ==
    /\ UNCHANGED <<platform, phase, audioRefs, restart>>
    /\ IF c.isPlaying
       THEN /\ StopVoice
            /\ UNCHANGED <<frequency, waveType, amplitude, highFreqAttenuation,
                           gainValue, inflight>>
            /\ IF phase = "mounted"
               THEN /\ isPlaying' = FALSE
                    /\ audioData' = CommittedAudioData(
                                 generateWaveform(c.frequency, c.waveType, c.amplitude))
               ELSE UNCHANGED <<isPlaying, audioData>>
       ELSE IF audioContextRef /\ ctxState = "suspended"
            THEN /\ BagCardinality(inflight) < MaxInFlight
                 /\ inflight' = inflight (+) SetToBag({Task("toggle", c.waveType, c)})
                 /\ UNCHANGED <<reactState, audioData, gainValue, voice, stopWarned>>
            ELSE /\ StartPlayback(c, fail)
                 /\ UNCHANGED <<inflight, stopWarned>>

\* tryWebAudioFallback: a context, a gain node and an oscillator of its own,
\* the oscillator started and the three refs overwritten whatever they hold;
\* when the platform throws, it does so before start() and nothing is kept.
tryWebAudioFallback(fail, created) ==
    IF fail = "throws"
    THEN UNCHANGED <<isPlaying, audioContextRef, ctxState, gainNodeRef, gainValue,
                     voice>>
    ELSE /\ Len(oscillators) < MaxOscillators
         /\ oscillators' = Append(oscillators, [type |-> "sine", frequency |-> 440])
         /\ oscillatorRef' = Len(oscillators) + 1
         /\ audioContextRef' = TRUE
         /\ ctxState' = created
         /\ gainNodeRef' = TRUE
         /\ gainValue' = InitialGain
         /\ isPlaying' = (isPlaying \/ phase = "mounted")

\* The mobile Safari branch of togglePlayback: an HTML5 audio element is
\* played, and tryWebAudioFallback runs when that fails.  play is what
\* audio.play() does.
togglePlaybackMobileSafari(c, fail, play) ==
    /\ UNCHANGED <<isMobileSafari, frequencyBinCount, phase, analyserRef, restart,
                   frequency, waveType, amplitude, highFreqAttenuation, stopWarned>>
    /\ IF c.isPlaying
       THEN /\ audioElementRef' = FALSE
            \* oscillatorRef.current.stop(), when the ref is not null
            /\ oscillators' = IF oscillatorRef # 0
                              THEN Remove(oscillators, oscillatorRef)
                              ELSE oscillators
            /\ oscillatorRef' = 0
            /\ isPlaying' = (isPlaying /\ phase # "mounted")
            /\ UNCHANGED <<audioContextRef, ctxState, gainNodeRef, gainValue, inflight>>
       ELSE CASE play = "throws" ->
                   /\ \E created \in CreatedStates : tryWebAudioFallback(fail, created)
                   /\ UNCHANGED <<audioElementRef, inflight>>
              [] play = "undefined" ->
                   /\ audioElementRef' = TRUE
                   /\ isPlaying' = (isPlaying \/ phase = "mounted")
                   /\ UNCHANGED <<audioContextRef, ctxState, gainNodeRef, gainValue,
                                  voice, inflight>>
              [] OTHER ->
                   \* the callbacks of the promise read nothing of the closure
                   /\ BagCardinality(inflight) < MaxInFlight
                   /\ inflight' = inflight (+) SetToBag({PlayTask})
                   /\ UNCHANGED <<audioElementRef, isPlaying, audioContextRef, ctxState,
                                  gainNodeRef, gainValue, voice>>
    /\ audioData' = IF phase = "mounted"
                    THEN CommittedAudioData(
                            generateWaveform(c.frequency, c.waveType, c.amplitude))
                    ELSE audioData

\* togglePlayback of the render with closure c, up to its await or its end.
togglePlayback(c, fail, play) ==
    IF isMobileSafari
    THEN togglePlaybackMobileSafari(c, fail, play)
    ELSE togglePlaybackDesktop(c, fail)

\* handleButtonPress once the audio is initialized: togglePlayback of this render.
handleButtonPress(fail, play) ==
    /\ Interactive
    /\ audioInitialized
    /\ togglePlayback(Closure, fail, play)
    /\ UNCHANGED <<audioInitialized, microtask>>
    /\ AnimationEffect

\* The first handleButtonPress: initAudio up to its await or its end.  When it
\* ends without awaiting, handleButtonPress goes on at once (AfterInitAudio).
\* created is what new AudioContext() does: it throws, or the state of the
\* context.  On mobile Safari no analyser is created, and with a context already there
\* createMobileSafariAudio runs first: it awaits resume() ("initProbe") and
\* plays a test oscillator whose stop is scheduled as it is started.
initAudio(created) ==
    /\ Interactive
    /\ UNCHANGED <<platform, stopWarned>>
    /\ ~audioInitialized
    /\ UNCHANGED <<phase, audioInitialized, reactState, audioData, voice, restart>>
    /\ LET state == IF audioContextRef THEN ctxState ELSE created
       IN  /\ IF audioContextRef \/ created = "throws"
              THEN UNCHANGED <<audioRefs, gainValue>>
              ELSE /\ audioContextRef' = TRUE
                   /\ ctxState' = created
                   /\ gainNodeRef' = TRUE
                   /\ gainValue' = InitialGain
                   /\ analyserRef' = ~isMobileSafari
           /\ IF state = "suspended"
              THEN /\ BagCardinality(inflight) < MaxInFlight
                   /\ inflight' = inflight (+) SetToBag({Task(
                          IF isMobileSafari /\ audioContextRef
                          THEN "initProbe" ELSE "init", waveType, Closure)})
                   /\ UNCHANGED microtask
              ELSE /\ microtask' = Task("init", waveType, Closure)
                   /\ UNCHANGED inflight
    /\ AnimationEffect

\* The rest of the first handleButtonPress after "await initAudio()":
\* setAudioInitialized(true) and togglePlayback of the render of the press.
AfterInitAudio(fail, play) ==
    /\ microtask.k = "init"
    /\ microtask' = NoTask
    /\ togglePlayback(microtask.c, fail, play)
    /\ audioInitialized' = (audioInitialized \/ phase = "mounted")
    /\ AnimationEffect

----------------------------------------------------------------------------
(* The setters *)

\* The validation of updateFrequency and the clamps of updateAmplitude and
\* updateHighFreqAttenuation, each after a variant with a slip in it.
invalidFrequencyExclusive(newFreq) ==
    isNaN(newFreq) \/ ~isFinite(newFreq) \/ newFreq <= 20 \/ newFreq >= 20000
invalidFrequencyNoLower(newFreq) ==
    isNaN(newFreq) \/ ~isFinite(newFreq) \/ newFreq > 20000
invalidFrequency(newFreq) ==
    isNaN(newFreq) \/ ~isFinite(newFreq) \/ newFreq < 20 \/ newFreq > 20000

clampedAmplitudeNoFloor(newAmplitude) == MathMin(10, newAmplitude)
clampedAmplitudeNoCeiling(newAmplitude) == MathMax(0, newAmplitude)
clampedAmplitude(newAmplitude) == MathMax(0, MathMin(10, newAmplitude))

clampedAttenuationHalf(newAttenuation) == MathMax(0, MathMin(5, newAttenuation))
clampedAttenuation(newAttenuation) == MathMax(0, MathMin(10, newAttenuation))

updateFrequency(newFreq) ==
    /\ Interactive
    /\ UNCHANGED <<platform, stopWarned>>
    /\ UNCHANGED <<phase, audioInitialized, audioRefs, oscillatorRef, restart,
                   inflight, microtask>>
    /\ IF invalidFrequency(newFreq)
       THEN UNCHANGED <<reactState, audioData, gainValue, oscillators>>
       ELSE /\ frequency' = newFreq
            /\ UNCHANGED <<isPlaying, waveType, amplitude, highFreqAttenuation>>
            /\ IF isPlaying
               THEN /\ oscillators' = updateWebAudioOscillator(Closure).oscs
                    /\ gainValue' = updateWebAudioOscillator(Closure).gain
               ELSE UNCHANGED <<oscillators, gainValue>>
            /\ audioData' = CommittedAudioData(
                               generateWaveform(newFreq, waveType, amplitude))
    /\ AnimationEffect

\* clearTimeout(waveformSwitchTimeoutRef.current) when the ref is not null:
\* the pending timeouts after it.  A timeout that has fired cannot be cleared.
ClearTimeout ==
    IF waveformSwitchTimeoutRef = "pending"
    THEN SubSeq(timers, 1, Len(timers) - 1)
    ELSE timers

\* The closure of the restart callback: of the state of its render it reads
\* frequency, amplitude and highFreqAttenuation alone (the other two fields
\* are set to what the callback stands for: playing, with the new type).
RestartClosure(newType) ==
    [Closure EXCEPT !.isPlaying = TRUE, !.waveType = newType]

\* A variant that restarts the voice whether the render is playing or not.
updateWaveTypeRestartAlways(newType) ==
    /\ Interactive
    /\ UNCHANGED platform
    /\ UNCHANGED <<phase, audioInitialized, audioRefs, gainValue, inflight, microtask>>
    /\ waveType' = newType
    /\ UNCHANGED <<isPlaying, frequency, amplitude, highFreqAttenuation>>
    /\ Len(ClearTimeout) < MaxTimer
    /\ StopVoice
    /\ timers' = Append(ClearTimeout, Task("restart", newType, RestartClosure(newType)))
    /\ waveformSwitchTimeoutRef' = "pending"
    /\ audioData' = CommittedAudioData(generateWaveform(frequency, newType, amplitude))
    /\ AnimationEffect

updateWaveType(newType) ==
    /\ Interactive
    /\ UNCHANGED platform
    /\ UNCHANGED <<phase, audioInitialized, audioRefs, gainValue, inflight, microtask>>
    /\ waveType' = newType
    /\ UNCHANGED <<isPlaying, frequency, amplitude, highFreqAttenuation>>
    /\ IF isPlaying
       THEN /\ Len(ClearTimeout) < MaxTimer
            /\ StopVoice
            /\ timers' = Append(ClearTimeout, Task("restart", newType, RestartClosure(newType)))
            /\ waveformSwitchTimeoutRef' = "pending"
       ELSE UNCHANGED <<voice, stopWarned, restart>>
    /\ audioData' = CommittedAudioData(generateWaveform(frequency, newType, amplitude))
    /\ AnimationEffect

updateAmplitude(newAmplitude) ==
    /\ Interactive
    /\ UNCHANGED <<platform, stopWarned>>
    /\ UNCHANGED <<phase, audioInitialized, audioRefs, voice, restart, inflight,
                   microtask>>
    /\ IF isNaN(newAmplitude) \/ ~isFinite(newAmplitude)
       THEN UNCHANGED <<reactState, audioData, gainValue>>
       ELSE LET clamped == clampedAmplitude(newAmplitude)
            IN  /\ amplitude' = clamped
                /\ UNCHANGED <<isPlaying, frequency, waveType, highFreqAttenuation>>
                /\ IF gainNodeRef /\ audioContextRef
                   THEN gainValue' = adjustedGain(clamped,
                           getVolumeCompensation(waveType, frequency, highFreqAttenuation))
                   ELSE UNCHANGED gainValue
                /\ audioData' = CommittedAudioData(
                                   generateWaveform(frequency, waveType, clamped))
    /\ AnimationEffect

updateHighFreqAttenuation(newAttenuation) ==
    /\ Interactive
    /\ UNCHANGED <<platform, stopWarned>>
    /\ UNCHANGED <<phase, audioInitialized, audioRefs, voice, restart, inflight,
                   microtask>>
    /\ IF isNaN(newAttenuation) \/ ~isFinite(newAttenuation)
       THEN UNCHANGED <<reactState, audioData, gainValue>>
       ELSE LET clamped == clampedAttenuation(newAttenuation)
            IN  /\ highFreqAttenuation' = clamped
                /\ UNCHANGED <<isPlaying, frequency, waveType, amplitude>>
                /\ IF gainNodeRef /\ audioContextRef /\ isPlaying
                   THEN gainValue' = adjustedGain(amplitude,
                           getVolumeCompensation(waveType, frequency, clamped))
                   ELSE UNCHANGED gainValue
                /\ audioData' = CommittedAudioData(
                                   generateWaveform(frequency, waveType, amplitude))
    /\ AnimationEffect

----------------------------------------------------------------------------
(* The touch on the visualizer *)

\* The value undefined: like NaN, outside every range the program works with.
undefined == -2000000001

\* A frequency the touch computes is in units of 1e-5 Hz, rounded down.
FreqOne == 100000

\* The whole hertz of such a frequency: what the state keeps of it.  The
\* limits of updateFrequency are whole, so a frequency below 20 Hz stays
\* below 20 and one of at most 20000 Hz stays at most 20000.
Hertz(v) == v \div FreqOne

\* Math.exp(logMin + (clampedX / width) * (logMax - logMin)) with
\* logMin = Math.log(20) and logMax = Math.log(20000), in double precision
\* (Math.exp(Math.log(20)) is 19.999999999999996 and the value at the right
\* edge 19999.99999999998), tabulated on the positions the model touches.
TouchExp ==
    <<0, 320>> :> 1999999 @@ <<1, 320>> :> 2043642 @@ <<80, 320>> :> 11246826 @@
    <<160, 320>> :> 63245553 @@ <<240, 320>> :> 355655882 @@ <<319, 320>> :> 1957289181 @@
    <<320, 320>> :> 1999999999 @@ <<0, 400>> :> 1999999 @@ <<1, 400>> :> 2034838 @@
    <<100, 400>> :> 11246826 @@ <<200, 400>> :> 63245553 @@ <<300, 400>> :> 355655882 @@
    <<399, 400>> :> 1965757746 @@ <<400, 400>> :> 1999999999

\* The frequency handleVisualizerTouch hands to updateFrequency for a touch at
\* x on a window of the given width.
touchFrequency(x, width) ==
    LET safeX == IF isNaN(x) \/ x = undefined THEN width \div 2 ELSE x
        clampedX == MathMax(0, MathMin(width, safeX))
    IN  TouchExp[<<clampedX, width>>]

handleVisualizerTouch(x, width) ==
    LET newFreq == touchFrequency(x, width)
    IN  IF ~isNaN(newFreq) /\ isFinite(newFreq)
        THEN updateFrequency(Hertz(newFreq))
        ELSE Interactive /\ UNCHANGED vars

----------------------------------------------------------------------------
(* Callbacks: the debounce timer, the settled resume(), the animation frame *)

\* The restart callback from startWebAudioOscillator(newType) on.
RestartVoice(t, fail) ==
    LET r == startWebAudioOscillator(t.newType, t.c, fail)
    IN  /\ oscillatorRef' = r.ref
        /\ oscillators' = r.oscs
        /\ gainValue' = r.gain
        /\ waveformSwitchTimeoutRef' = "null"

\* The oldest pending timeout fires (equal delays fire in the order armed):
\* its callback runs up to its await or its end.
TimerFires(fail) ==
    /\ Idle
    /\ UNCHANGED <<platform, stopWarned>>
    /\ timers # <<>>
    /\ timers' = Tail(timers)
    /\ UNCHANGED <<phase, audioInitialized, reactState, audioData, audioRefs, microtask>>
    /\ IF audioContextRef /\ ctxState = "suspended"
       THEN /\ BagCardinality(inflight) < MaxInFlight
            /\ inflight' = inflight (+) SetToBag({Head(timers)})
            /\ waveformSwitchTimeoutRef' =
                 IF waveformSwitchTimeoutRef = "pending" /\ Len(timers) = 1
                 THEN "fired" ELSE waveformSwitchTimeoutRef
            /\ UNCHANGED <<gainValue, voice>>
       ELSE /\ RestartVoice(Head(timers), fail)
            /\ UNCHANGED inflight
    /\ AnimationEffect

\* The promise of audioContext.resume() awaited by task settles:
\* resolved, with the context running, or rejected.
ResumeSettles(task, resolved, fail) ==
    /\ Idle
    /\ UNCHANGED <<platform, stopWarned>>
    /\ BagIn(task, inflight)
    /\ resolved => audioContextRef /\ ctxState \in {"suspended", "running"}
    /\ ctxState' = IF resolved THEN "running" ELSE ctxState
    /\ UNCHANGED <<phase, audioContextRef, gainNodeRef, analyserRef, timers>>
    /\ task.k # "play"
    /\ CASE task.k = "init" ->
             \* initAudio catches a rejection: handleButtonPress goes on either way
             /\ inflight' = inflight (-) SetToBag({task})
             /\ microtask' = task
             /\ UNCHANGED <<audioInitialized, reactState, audioData, gainValue,
                            voice, waveformSwitchTimeoutRef>>
        [] task.k = "initProbe" ->
             \* createMobileSafariAudio catches a rejection and initAudio goes on
             \* to its own resume() of a context that is still suspended
             /\ IF ~resolved /\ audioContextRef /\ ctxState = "suspended"
                THEN /\ inflight' = (inflight (-) SetToBag({task}))
                                       (+) SetToBag({[task EXCEPT !.k = "init"]})
                     /\ UNCHANGED microtask
                ELSE /\ inflight' = inflight (-) SetToBag({task})
                     /\ microtask' = [task EXCEPT !.k = "init"]
             /\ UNCHANGED <<audioInitialized, reactState, audioData, gainValue,
                            voice, waveformSwitchTimeoutRef>>
        [] task.k = "toggle" ->
             \* the try of togglePlayback catches a rejection and does nothing more
             /\ inflight' = inflight (-) SetToBag({task})
             /\ UNCHANGED <<audioInitialized, microtask, waveformSwitchTimeoutRef>>
             /\ IF resolved
                THEN StartPlayback(task.c, fail)
                ELSE UNCHANGED <<reactState, audioData, gainValue, voice>>
        [] OTHER ->
             \* the restart callback: a rejection ends it where it is
             /\ inflight' = inflight (-) SetToBag({task})
             /\ UNCHANGED <<audioInitialized, microtask, reactState, audioData>>
             /\ IF resolved
                THEN RestartVoice(task, fail)
                ELSE UNCHANGED <<gainValue, voice, waveformSwitchTimeoutRef>>
    /\ AnimationEffect

\* The promise of audio.play() settles: the element plays, or
\* tryWebAudioFallback runs.
PlaySettles(task, resolved, fail) ==
    /\ Idle
    /\ BagIn(task, inflight)
    /\ task.k = "play"
    /\ inflight' = inflight (-) SetToBag({task})
    /\ UNCHANGED <<isMobileSafari, frequencyBinCount, phase, audioInitialized,
                   frequency, waveType, amplitude, highFreqAttenuation, analyserRef,
                   restart, microtask, stopWarned>>
    /\ IF resolved
       THEN /\ audioElementRef' = TRUE
            /\ isPlaying' = (isPlaying \/ phase = "mounted")
            /\ UNCHANGED <<audioContextRef, ctxState, gainNodeRef, gainValue, voice>>
       ELSE /\ \E created \in CreatedStates : tryWebAudioFallback(fail, created)
            /\ UNCHANGED audioElementRef
    /\ audioData' = IF phase = "mounted" THEN CommittedAudioData(audioData)
                    ELSE audioData
    /\ AnimationEffect

\* One frame of the animation loop of the playing render.
AnimationTick ==
    /\ Interactive
    /\ UNCHANGED <<platform, stopWarned>>
    /\ animationFrames > 0
    \* animate requests the next frame
    /\ UNCHANGED animationFrames
    /\ audioData' = updateAudioData(frequency, waveType, amplitude, isPlaying)
    /\ UNCHANGED <<phase, audioInitialized, reactState, audioRefs, gainValue, voice,
                   restart, inflight, microtask>>

\* The user agent suspends the audio context.
ContextSuspended ==
    /\ Idle
    /\ UNCHANGED <<platform, stopWarned>>
    /\ audioContextRef
    /\ ctxState = "running"
    /\ ctxState' = "suspended"
    /\ UNCHANGED <<phase, audioInitialized, reactState, audioData, audioContextRef,
                   gainNodeRef, analyserRef, gainValue, voice, restart, inflight,
                   microtask>>
    /\ AnimationEffect

----------------------------------------------------------------------------
(* Unmount: the cleanup of the mount effect *)

Unmount ==
    /\ Interactive
    /\ UNCHANGED platform
    /\ phase' = "unmounted"
    /\ timers' = ClearTimeout
    /\ waveformSwitchTimeoutRef' = "null"
    /\ StopVoice
    \* close() returns a promise: it does not throw
    /\ audioContextRef' = FALSE
    /\ ctxState' = IF audioContextRef THEN "closed" ELSE ctxState
    /\ gainNodeRef' = FALSE
    /\ analyserRef' = FALSE
    \* the state of the unmounted component is gone: it is left at its initial values
    /\ audioInitialized' = FALSE
    /\ isPlaying' = FALSE
    /\ frequency' = 440
    /\ waveType' = "sine"
    /\ amplitude' = 3
    /\ highFreqAttenuation' = 5
    /\ audioData' = InitialAudioData
    /\ gainValue' = 0
    /\ UNCHANGED <<inflight, microtask>>
    /\ AnimationEffect

----------------------------------------------------------------------------
Next ==
    \/ MountEffects
    \/ \E created \in CreatedStates \cup {"throws"} : initAudio(created)
    \/ \E fail \in StartFailures, play \in PlayOutcomes : AfterInitAudio(fail, play)
    \/ \E fail \in StartFailures, play \in PlayOutcomes : handleButtonPress(fail, play)
    \/ \E newFreq \in FreqInputs : updateFrequency(newFreq)
    \/ \E newType \in WaveInputs : updateWaveType(newType)
    \/ \E newAmplitude \in AmpInputs : updateAmplitude(newAmplitude)
    \/ \E newAttenuation \in AttInputs : updateHighFreqAttenuation(newAttenuation)
    \/ \E fail \in StartFailures : TimerFires(fail)
    \/ \E task \in BagToSet(inflight), resolved \in BOOLEAN, fail \in StartFailures :
          ResumeSettles(task, resolved, fail) \/ PlaySettles(task, resolved, fail)
    \/ AnimationTick
    \/ ContextSuspended
    \/ Unmount

Spec == Init /\ [][Next]_vars

----------------------------------------------------------------------------
(* The setters called with valid, out-of-range and non-finite inputs, on an *)
(* engine that is started and stopped with the platform failing nowhere and *)
(* whose waveform kind is chosen while it is stopped                        *)

FreqValues == {NaN, Infinity, NegInfinity, 19, 20, 440, 2000, 20000, 20001}
AmpValues == {NaN, Infinity, NegInfinity, -3, 0, 5, 10, 15}
AttValues == {NaN, Infinity, NegInfinity, -3, 0, 10, 15}

SetterNext ==
    \/ MountEffects
    \/ initAudio("running")
    \/ \E play \in PlayOutcomes \ {"throws"} : AfterInitAudio("none", play)
    \/ \E play \in PlayOutcomes \ {"throws"} : handleButtonPress("none", play)
    \/ \E newFreq \in FreqValues : updateFrequency(newFreq)
    \/ \E newType \in WaveTypes : ~isPlaying /\ updateWaveType(newType)
    \/ \E newAmplitude \in AmpValues : updateAmplitude(newAmplitude)
    \/ \E newAttenuation \in AttValues : updateHighFreqAttenuation(newAttenuation)
    \/ \E task \in BagToSet(inflight) : PlaySettles(task, TRUE, "none")

SetterSpec == Init /\ [][SetterNext]_vars

----------------------------------------------------------------------------
(* The life cycle of the voice: the engine started, restarted, stopped and  *)
(* torn down with the parameters left at their initial values, the audio    *)
(* context suspended and resumed at any time and the platform throwing      *)
(* nowhere                                                                  *)

LifecycleNext ==
    \/ MountEffects
    \/ \E created \in CreatedStates : initAudio(created)
    \/ \E play \in PlayOutcomes : AfterInitAudio("none", play)
    \/ \E play \in PlayOutcomes : handleButtonPress("none", play)
    \/ \E newType \in WaveInputs : updateWaveType(newType)
    \/ TimerFires("none")
    \/ \E task \in BagToSet(inflight), resolved \in BOOLEAN :
          ResumeSettles(task, resolved, "none") \/ PlaySettles(task, resolved, "none")
    \/ ContextSuspended
    \/ Unmount

LifecycleSpec == Init /\ [][LifecycleNext]_vars

----------------------------------------------------------------------------
(* The gain over the parameter space: the engine initialized, started and   *)
(* stopped in a parameter state the setters have left while it was stopped, *)
(* and the amplitude and the attenuation level set at any time, the         *)
(* platform failing nowhere                                                 *)

\* one frequency at, next to and inside each limit of the four bands
BandFreqs == {20, 200, 201, 440, 1000, 1100, 2000, 4000, 4001, 8000, 20000}
AmpLevels == {0, 3, 7, 10}
AttLevels == 0..10

\* The mounted component after any setter calls, no button pressed yet.
ParameterInit ==
    /\ isMobileSafari \in BOOLEAN
    /\ frequencyBinCount = fftSize \div 2
    /\ audioElementRef = FALSE
    /\ phase = "mounted"
    /\ audioInitialized = FALSE
    /\ isPlaying = FALSE
    /\ frequency \in BandFreqs
    /\ waveType \in WaveTypes
    /\ amplitude \in AmpLevels
    /\ highFreqAttenuation \in AttLevels
    /\ audioData = generateWaveform(frequency, waveType, amplitude)
    /\ audioContextRef = FALSE
    /\ ctxState = "none"
    /\ gainNodeRef = FALSE
    /\ gainValue = 0
    /\ analyserRef = FALSE
    /\ oscillatorRef = 0
    /\ oscillators = <<>>
    /\ stopWarned = FALSE
    /\ waveformSwitchTimeoutRef = "null"
    /\ timers = <<>>
    /\ animationFrames = 0
    /\ inflight = EmptyBag
    /\ microtask = NoTask

CompensationNext ==
    \/ initAudio("running")
    \/ \E play \in PlayOutcomes \ {"throws"} : AfterInitAudio("none", play)
    \/ \E play \in PlayOutcomes \ {"throws"} : handleButtonPress("none", play)
    \/ \E newAmplitude \in AmpLevels : updateAmplitude(newAmplitude)
    \/ \E newAttenuation \in AttLevels : updateHighFreqAttenuation(newAttenuation)
    \/ \E task \in BagToSet(inflight) : PlaySettles(task, TRUE, "none")

CompensationSpec == ParameterInit /\ [][CompensationNext]_vars

----------------------------------------------------------------------------
(* The visualization buffer: the engine started and stopped, the amplitude  *)
(* and (while stopped) the kind set, the animation frames running, with an  *)
(* analyser of any buffer length the platform has (fftSize 32 to 32768; the *)
(* engine itself asks for 2048) and the platform failing nowhere            *)

BinCounts == {16, 32, 64, 128, 256, 512, 1024, 2048, 4096, 8192, 16384}

VisualizationInit ==
    /\ isMobileSafari \in BOOLEAN
    /\ frequencyBinCount \in BinCounts
    /\ audioElementRef = FALSE
    /\ phase = "rendered"
    /\ audioInitialized = FALSE
    /\ isPlaying = FALSE
    /\ frequency = 440
    /\ waveType = "sine"
    /\ amplitude = 3
    /\ highFreqAttenuation = 5
    /\ audioData = InitialAudioData
    /\ audioContextRef = FALSE
    /\ ctxState = "none"
    /\ gainNodeRef = FALSE
    /\ gainValue = 0
    /\ analyserRef = FALSE
    /\ oscillatorRef = 0
    /\ oscillators = <<>>
    /\ stopWarned = FALSE
    /\ waveformSwitchTimeoutRef = "null"
    /\ timers = <<>>
    /\ animationFrames = 0
    /\ inflight = EmptyBag
    /\ microtask = NoTask

VisualizationNext ==
    \/ MountEffects
    \/ initAudio("running")
    \/ \E play \in PlayOutcomes \ {"throws"} : AfterInitAudio("none", play)
    \/ \E play \in PlayOutcomes \ {"throws"} : handleButtonPress("none", play)
    \/ \E newType \in WaveTypes : ~isPlaying /\ updateWaveType(newType)
    \/ \E newAmplitude \in AmpLevels : updateAmplitude(newAmplitude)
    \/ \E newFreq \in {440, 1000} : updateFrequency(newFreq)
    \/ \E task \in BagToSet(inflight) : PlaySettles(task, TRUE, "none")
    \/ AnimationTick

VisualizationSpec == VisualizationInit /\ [][VisualizationNext]_vars

----------------------------------------------------------------------------
(* The setters called at any time, valid or not, on an engine that is      *)
(* started, restarted, stopped and torn down, the platform throwing        *)
(* nowhere and the audio context created running                           *)

FrameFreqs == {NaN, Infinity, 19, 1000, 2000, 20001}
FrameAmps == {NaN, NegInfinity, 0, 10}
FrameAtts == {NaN, Infinity, 10}

FrameNext ==
    \/ MountEffects
    \/ initAudio("running")
    \/ \E play \in PlayOutcomes \ {"throws"} : AfterInitAudio("none", play)
    \/ \E play \in PlayOutcomes \ {"throws"} : handleButtonPress("none", play)
    \/ \E newFreq \in FrameFreqs : updateFrequency(newFreq)
    \/ \E newType \in WaveInputs : updateWaveType(newType)
    \/ \E newAmplitude \in FrameAmps : updateAmplitude(newAmplitude)
    \/ \E newAttenuation \in FrameAtts : updateHighFreqAttenuation(newAttenuation)
    \/ TimerFires("none")
    \/ \E task \in BagToSet(inflight) : PlaySettles(task, TRUE, "none")
    \/ AnimationTick
    \/ Unmount

FrameSpec == Init /\ [][FrameNext]_vars

----------------------------------------------------------------------------
(* The visualizer touched at any position, on an engine that is mounted    *)
(* and not started, its waveform kind and its amplitude set at any time    *)

\* widths of the window, and the positions of a touch on a window: none, not
\* a number, left of it, on its edges, next to them, inside, right of it
Widths == {320, 400}
TouchXs(width) ==
    {undefined, NaN, NegInfinity, -5, 0, 1, width \div 4, width \div 2,
     (3 * width) \div 4, width - 1, width, width + 5, Infinity}

TouchNext ==
    \/ MountEffects
    \/ \E width \in Widths : \E x \in TouchXs(width) : handleVisualizerTouch(x, width)
    \/ \E newType \in WaveTypes : updateWaveType(newType)
    \/ \E newAmplitude \in AmpLevels : updateAmplitude(newAmplitude)

TouchSpec == Init /\ [][TouchNext]_vars

----------------------------------------------------------------------------
(* Steps the properties speak about *)

\* The live voice, when oscillatorRef holds one.
LiveVoice == oscillators[oscillatorRef]
LiveVoiceAfter == oscillators'[oscillatorRef']

\* This step started a new oscillator.
VoiceCreated == Len(oscillators') > Len(oscillators)

\* No restart is pending and no async function is suspended.
Quiet == timers = <<>> /\ inflight = EmptyBag /\ Idle

\* The gain the current parameter state stands for.
GainOfState ==
    adjustedGain(amplitude,
                 getVolumeCompensation(waveType, frequency, highFreqAttenuation))

\* The restart callback of task runs to its end in this step, the platform
\* throwing nowhere: at once when its timeout fires, or after its await.
RestartCompletes(task) ==
    \/ /\ timers # <<>>
       /\ task = Head(timers)
       /\ ~(audioContextRef /\ ctxState = "suspended")
       /\ TimerFires("none")
    \/ /\ task.k = "restart"
       /\ ResumeSettles(task, TRUE, "none")

RestartTasks == { timers[i] : i \in 1..Len(timers) } \cup BagToSet(inflight)

----------------------------------------------------------------------------
(* C1..C10 *)
(* C1..C12 are stated on the desktop branch, where every voice is started   *)
(* by startWebAudioOscillator.                                              *)

Desktop == ~isMobileSafari

\* C1: in every reachable state, whenever isPlaying is true a backing voice
\* exists: oscillatorRef is not null and refers to a started oscillator.
C1_PlayingHasVoice ==
    (Desktop /\ isPlaying) => oscillatorRef # 0 /\ oscillatorRef \in 1..Len(oscillators)

\* C2: updateFrequency(f) with a valid f while a voice is running leaves f,
\* the value now in the parameter state, as the frequency of the live
\* oscillator.
C2_FrequencyPushed ==
    [][\A f \in FreqInputs :
          (/\ Desktop
           /\ isFinite(f) /\ f >= 20 /\ f <= 20000
           /\ isPlaying /\ oscillatorRef # 0
           /\ updateFrequency(f))
          => (LiveVoiceAfter.frequency = f /\ frequency' = f)]_vars

\* C3: whenever a voice is running and no handler, timer callback or resume
\* is in flight, the gain last set on the gain node is
\* amplitude * 0.8 * compensation(waveType, frequency, attenuation) of the
\* current parameter state.
C3_GainMatchesState ==
    (Desktop /\ isPlaying /\ oscillatorRef # 0 /\ Quiet) => gainValue = GainOfState

\* C4: when the restart armed by updateWaveType(k) runs to its end, the
\* audio context being there and no updateWaveType having changed the kind
\* since, a live voice of type k exists, and isPlaying was true and stays
\* true.
C4_RestartReachesKind ==
    [][\A task \in RestartTasks :
          (/\ Desktop
           /\ isPlaying /\ audioContextRef
           /\ task.newType = waveType
           /\ RestartCompletes(task))
          => (/\ isPlaying'
              /\ oscillatorRef' # 0
              /\ LiveVoiceAfter.type = task.newType)]_vars

\* C5: of two updateWaveType calls, the second made before the timeout of
\* the first has fired, the first starts no oscillator: when a timeout
\* fires that a later call has followed with another kind, no oscillator is
\* created.
C5_SupersededCreatesNothing ==
    [][\A fail \in StartFailures :
          (/\ Desktop
           /\ Len(timers) > 1
           /\ Head(timers).newType # timers[Len(timers)].newType
           /\ TimerFires(fail))
          => ~VoiceCreated]_vars

\* C6: a restart callback that was suspended at await resume() starts,
\* when it goes on while playing, no voice of a kind other than the
\* waveType of the parameter state (a later updateWaveType has superseded
\* its kind).
C6_NoStaleKind ==
    [][\A task \in BagToSet(inflight), fail \in StartFailures :
          (/\ Desktop
           /\ isPlaying /\ task.k = "restart"
           /\ ResumeSettles(task, TRUE, fail)
           /\ VoiceCreated)
          => LiveVoiceAfter.type = waveType]_vars

\* C7: the voice a firing restart creates has the frequency of the
\* parameter state and a gain computed from its amplitude, also when
\* updateFrequency or updateAmplitude ran after the timeout was armed.
C7_RestartUsesLatest ==
    [][\A fail \in StartFailures :
          (Desktop /\ TimerFires(fail) /\ VoiceCreated)
          => (/\ LiveVoiceAfter.frequency = frequency
              /\ gainValue' = adjustedGain(amplitude,
                                 getVolumeCompensation(LiveVoiceAfter.type, frequency,
                                                       highFreqAttenuation)))]_vars

\* C8: stopping cancels the pending restart, so in every state with
\* isPlaying false no live oscillator exists.
C8_StoppedHasNoVoice ==
    (Desktop /\ ~isPlaying) => oscillators = <<>>

\* C9: teardown cancels any pending debounced restart, stops the live
\* oscillator and clears the context, gain and analyser references.
C9_TeardownCancelsAll ==
    [][(Desktop /\ Unmount) =>
          (/\ timers' = <<>>
           /\ oscillators' = <<>> /\ oscillatorRef' = 0
           /\ ~audioContextRef' /\ ~gainNodeRef' /\ ~analyserRef')]_vars

\* C10: a start that ends without a voice (no audio context, or the
\* platform threw) leaves isPlaying false: isPlaying turns true only with
\* oscillatorRef set.
C10_FailedStartStaysIdle ==
    [][(Desktop /\ ~isPlaying /\ isPlaying') => oscillatorRef' # 0]_vars

----------------------------------------------------------------------------
(* C11..C20 *)

\* A start that awaits resume(): the start branch of togglePlayback or the
\* restart callback.
StartTasks == { t \in BagToSet(inflight) : t.k \in {"toggle", "restart"} }

\* C11: when the resume() a start awaits is rejected, the start still goes
\* on to startWebAudioOscillator: with the audio context and the gain node
\* there, no oscillator referenced and the platform throwing nowhere, an
\* oscillator is started.
C11_ResumeFailureNotFatal ==
    [][\A task \in StartTasks :
          (/\ Desktop
           /\ audioContextRef /\ gainNodeRef /\ oscillatorRef = 0
           /\ ResumeSettles(task, FALSE, "none"))
          => VoiceCreated]_vars

\* A step in which togglePlayback reaches startWebAudioOscillator: at once in
\* a button press, or after its await of resume().
ToggleStarts ==
    \/ \E fail \in StartFailures, play \in PlayOutcomes :
          handleButtonPress(fail, play) \/ AfterInitAudio(fail, play)
    \/ \E task \in BagToSet(inflight), fail \in StartFailures :
          task.k = "toggle" /\ ResumeSettles(task, TRUE, fail)

\* C12: the voice a start creates has the frequency and the waveform kind of
\* the parameter state at that moment, and the gain node holds the gain that
\* state stands for, also when a setter ran while the start awaited resume().
C12_StartUsesCurrentState ==
    [][(Desktop /\ ToggleStarts /\ VoiceCreated)
          => (/\ LiveVoiceAfter.frequency = frequency'
              /\ LiveVoiceAfter.type = waveType'
              /\ gainValue' = GainOfState')]_vars

\* C13: in every reachable state at most one oscillator is started and not
\* stopped, and it is the one oscillatorRef holds.
C13_SingleVoice ==
    /\ Len(oscillators) <= 1
    /\ oscillators # <<>> => oscillatorRef = 1

\* What the claims call finite, in range and clamped (amplitude and
\* attenuation are in tenths).
Finite(x) == x \notin {NaN, Infinity, NegInfinity}
InRange(f) == Finite(f) /\ 20 <= f /\ f <= 20000
Clamp01(x) == IF x < 0 THEN 0 ELSE IF x > 10 THEN 10 ELSE x

\* C14: updateFrequency(f) leaves frequency unchanged when f is NaN, an
\* infinity, below 20 or above 20000, and sets it to f when 20 <= f <= 20000:
\* no call ends with another frequency, and wherever the handler can be
\* called, a call with an f in range ends with frequency f.
C14_FrequencyValidated ==
    /\ [][\A f \in FreqValues :
            updateFrequency(f) => frequency' = IF InRange(f) THEN f ELSE frequency]_vars
    /\ [](Interactive =>
            \A f \in FreqValues :
               InRange(f) => ENABLED (updateFrequency(f) /\ frequency' = f))

\* C14 witness: the lower bound itself was accepted.
C14_Witness == frequency = 20

\* C15: in every state frequency is finite and in [20, 20000], and amplitude
\* and the attenuation level are in [0, 1].
C15_ParametersInRange ==
    /\ InRange(frequency)
    /\ 0 <= amplitude /\ amplitude <= 10
    /\ 0 <= highFreqAttenuation /\ highFreqAttenuation <= 10

\* C15 witness: the three setters have acted, each parameter at an end of
\* its range.
C15_Witness == frequency = 20000 /\ amplitude = 10 /\ highFreqAttenuation = 0

\* C16: updateAmplitude(a) sets amplitude to min(1, max(0, a)) for a finite a
\* and leaves it unchanged for NaN and the infinities.
C16_AmplitudeClamped ==
    [][\A a \in AmpValues :
          updateAmplitude(a) => amplitude' = IF Finite(a) THEN Clamp01(a) ELSE amplitude]_vars

\* C16 witness: amplitude 0, which only updateAmplitude(-0.3) or
\* updateAmplitude(0) leaves.
C16_Witness == amplitude = 0

\* C17: updateAmplitude(1.5) leaves amplitude at its prior value.
C17_AboveOneRejected ==
    [][updateAmplitude(15) => amplitude' = amplitude]_vars

\* C18: after updateAmplitude(a) with a finite a, the audio context and the
\* gain node being there, the gain node holds
\* clamp(a) * 0.8 * compensation(waveType, frequency, highFreqAttenuation),
\* whether isPlaying is true or false.
C18_AmplitudeSetsGain ==
    [][\A a \in AmpValues :
          (Finite(a) /\ gainNodeRef /\ audioContextRef /\ updateAmplitude(a))
          => gainValue' = Clamp01(a) * 8
                 * getVolumeCompensation(waveType, frequency, highFreqAttenuation)]_vars

\* C18 witness: the engine is stopped and the gain node holds the gain of an
\* amplitude that only updateAmplitude sets.
C18_Witness ==
    /\ ~isPlaying /\ gainNodeRef /\ audioContextRef
    /\ amplitude = 5
    /\ gainValue = 5 * 8 * getVolumeCompensation(waveType, frequency, highFreqAttenuation)

\* C19: updateHighFreqAttenuation(v) with a finite v sets the attenuation
\* level to min(1, max(0, v)) and, when isPlaying (the gain node being
\* there), the gain to amplitude * 0.8 * compensation(waveType, frequency,
\* clamped v); with v NaN or an infinity it leaves both unchanged.
C19_AttenuationSetsGain ==
    [][\A v \in AttValues :
          updateHighFreqAttenuation(v)
          => IF Finite(v)
             THEN /\ highFreqAttenuation' = Clamp01(v)
                  /\ (isPlaying /\ gainNodeRef /\ audioContextRef)
                       => gainValue' = amplitude * 8
                            * getVolumeCompensation(waveType, frequency, Clamp01(v))
             ELSE /\ highFreqAttenuation' = highFreqAttenuation
                  /\ gainValue' = gainValue]_vars

\* C19 witness: playing above 1000 Hz with the attenuation level clamped to 1
\* and the gain that level stands for.
C19_Witness ==
    /\ isPlaying /\ gainNodeRef /\ audioContextRef
    /\ frequency = 2000
    /\ highFreqAttenuation = 10
    /\ gainValue = amplitude * 8 * getVolumeCompensation(waveType, 2000, 10)

\* A step that calls stopWebAudioOscillator: updateWaveType while playing,
\* the stop branch of the desktop togglePlayback, the cleanup of the unmount.
StopCalled ==
    \/ \E newType \in WaveInputs : isPlaying /\ updateWaveType(newType)
    \/ \E fail \in StartFailures, play \in PlayOutcomes :
          ~isMobileSafari /\ isPlaying /\ handleButtonPress(fail, play)
    \/ Unmount

\* C20: stopWebAudioOscillator called when the voice is already stopped
\* (oscillatorRef is null) changes nothing: the ref stays null and no
\* oscillator is touched.
C20_StopIdempotent ==
    [][(oscillatorRef = 0 /\ StopCalled)
          => (oscillatorRef' = 0 /\ oscillators' = oscillators)]_vars

\* C20 witness: two restarts are pending while playing with the ref null:
\* the second updateWaveType called stopWebAudioOscillator on a voice the
\* first had stopped.
C20_Witness == isPlaying /\ oscillatorRef = 0 /\ Len(timers) = 2

----------------------------------------------------------------------------
(* C21..C30 *)

\* C21: when stop() or disconnect() of the oscillator throws,
\* stopWebAudioOscillator raises nothing to its caller and still clears
\* oscillatorRef: every handler that calls it with an oscillator to stop
\* ends with the ref null and with the work that follows the call done (the
\* state set to stopped, the restart armed, the context released), and
\* wherever the stop button can be pressed on a voice, the press in which
\* the platform throws ends so too.
C21_StopFailureContained ==
    /\ [][(oscillatorRef # 0 /\ StopCalled)
            => (/\ oscillatorRef' = 0
                /\ Unmount => (~audioContextRef' /\ ~gainNodeRef')
                /\ (\E newType \in WaveInputs : updateWaveType(newType))
                      => waveformSwitchTimeoutRef' = "pending"
                /\ (\E fail \in StartFailures, play \in PlayOutcomes :
                       handleButtonPress(fail, play)) => ~isPlaying')]_vars
    /\ [](( /\ Interactive /\ Desktop /\ audioInitialized
            /\ isPlaying /\ oscillatorRef # 0)
          => ENABLED (/\ \E fail \in StartFailures, play \in PlayOutcomes :
                            handleButtonPress(fail, play)
                      /\ stopWarned' /\ oscillatorRef' = 0 /\ ~isPlaying'))

\* C21 witness: updateWaveType has stopped a voice whose stop threw: the
\* exception is logged, the ref is null and the restart is armed.
C21_Witness ==
    /\ stopWarned /\ oscillatorRef = 0 /\ oscillators = <<>>
    /\ isPlaying /\ waveformSwitchTimeoutRef = "pending"

\* C22: in every reachable state at most one restart timeout is pending, and
\* an updateWaveType that arms one leaves it as the only pending one (the
\* one pending before is cancelled).
C22_SingleRestartTimer ==
    /\ [](Len(timers) <= 1)
    /\ [][\A newType \in WaveInputs :
            (isPlaying /\ updateWaveType(newType)) => Len(timers') = 1]_vars

\* A step in which togglePlayback of the render with closure c goes to
\* startWebAudioOscillator: a button press, or the press going on after an
\* await of resume().
StartsWith(c) ==
    \/ \E fail \in StartFailures, play \in PlayOutcomes :
          \/ Closure = c /\ handleButtonPress(fail, play)
          \/ microtask.c = c /\ AfterInitAudio(fail, play)
    \/ \E task \in BagToSet(inflight), fail \in StartFailures :
          task.k = "toggle" /\ task.c = c /\ ResumeSettles(task, TRUE, fail)

C24_GainBelowFullScale ==
    gainNodeRef => (0 <= gainValue /\ gainValue <= 9600000 /\ gainValue < 10000000)

\* C24 witness: a sine at full amplitude in the boosted low band plays with
\* gain 0.96.
C24_Witness ==
    /\ gainNodeRef /\ isPlaying /\ oscillatorRef # 0
    /\ amplitude = 10 /\ waveType = "sine" /\ frequency <= 200
    /\ gainValue = 9600000

\* The factors the claims name: the base of a kind (in tenths) and the band
\* factor of the two lower bands (in units of 1e-4, the level a in tenths).
BaseFactor(kind) ==
    CASE kind = "sine" -> 10
      [] kind = "triangle" -> 7
      [] kind = "sawtooth" -> 5
      [] kind = "square" -> 3
BandFactor(f, a) == IF f <= 200 THEN 12000 ELSE 10000 - 100 * a

\* C25: up to 1000 Hz getVolumeCompensation(kind, f, a) is base(kind) * band(f, a)
\* with base 1.0, 0.7, 0.5, 0.3 for sine, triangle, sawtooth, square, band 1.2
\* up to 200 Hz whatever a is, and band 1.0 - 0.1 * a above 200 Hz up to
\* 1000 Hz, the limits 200 and 1000 included: so it is for every kind at the
\* frequency and level of every state, and the gain of a playing voice is
\* amplitude * 0.8 times that product.
C25_LowerBands ==
    frequency <= 1000 =>
       /\ \A kind \in WaveTypes :
             getVolumeCompensation(kind, frequency, highFreqAttenuation)
                = BaseFactor(kind) * BandFactor(frequency, highFreqAttenuation)
       /\ (Desktop /\ isPlaying /\ oscillatorRef # 0)
             => gainValue = amplitude * 8 * BaseFactor(waveType)
                               * BandFactor(frequency, highFreqAttenuation)

\* C25 witness: a square at 1000 Hz, the upper limit of the middle band,
\* plays at full amplitude and full attenuation with gain 1.0 * 0.8 * 0.3 * 0.9.
C25_Witness ==
    /\ Desktop /\ isPlaying /\ oscillatorRef # 0
    /\ frequency = 1000 /\ waveType = "square"
    /\ amplitude = 10 /\ highFreqAttenuation = 10
    /\ gainValue = 2160000

\* C26: above 200 Hz the compensation strictly decreases as the attenuation
\* level rises, for every kind: while a voice plays with an amplitude above 0,
\* raising the level lowers the gain and lowering it raises the gain; and at
\* every frequency and level the compensation of a sine is at least that of a
\* square, which is above 0.
C26_Monotone ==
    /\ [](/\ getVolumeCompensation("sine", frequency, highFreqAttenuation)
               >= getVolumeCompensation("square", frequency, highFreqAttenuation)
          /\ getVolumeCompensation("square", frequency, highFreqAttenuation) > 0)
    /\ [][\A v \in AttLevels :
            (/\ Desktop /\ isPlaying /\ oscillatorRef # 0
             /\ amplitude > 0 /\ frequency > 200
             /\ updateHighFreqAttenuation(v))
            => (/\ highFreqAttenuation' > highFreqAttenuation => gainValue' < gainValue
                /\ highFreqAttenuation' < highFreqAttenuation => gainValue' > gainValue)]_vars

\* C26 witness: a voice above 4000 Hz plays at full attenuation with a gain
\* below the one it has with no attenuation.
C26_Witness ==
    /\ Desktop /\ isPlaying /\ oscillatorRef # 0
    /\ frequency = 20000 /\ highFreqAttenuation = 10 /\ amplitude = 7
    /\ gainValue = adjustedGain(7, getVolumeCompensation(waveType, 20000, 10))
    /\ gainValue < adjustedGain(7, getVolumeCompensation(waveType, 20000, 0))

\* C27: for every kind and every amplitude in [0, 1] generateWaveform returns
\* exactly 1024 samples, each an integer in [1, 255]: so is every buffer the
\* handlers have set from generateWaveform.  (That two calls with the same
\* arguments return the same sequence is how an operator is read.)
C27_SamplerIntegers ==
    audioData.src = "generated" =>
       LET buf == Samples(audioData, "silence")
       IN  /\ DOMAIN buf = 0..1023
           /\ \A pos \in 0..1023 :
                 /\ buf[pos] % SampleOne = 0
                 /\ 1 * SampleOne <= buf[pos] /\ buf[pos] <= 255 * SampleOne

\* C28: at amplitude 0 every one of the 1024 samples of generateWaveform is
\* 128, for every kind.
C28_SilenceIsCentre ==
    (audioData.src = "generated" /\ audioData.amplitude = 0) =>
       LET buf == Samples(audioData, "silence")
       IN  /\ DOMAIN buf = 0..1023
           /\ \A pos \in 0..1023 : buf[pos] = 128 * SampleOne

\* C28 witness: the buffer is generateWaveform of a square at amplitude 0.
C28_Witness ==
    /\ audioData.src = "generated" /\ audioData.amplitude = 0
    /\ audioData.waveType = "square" /\ amplitude = 0

\* C29: in every reachable state audioData has exactly 1024 entries, each
\* within [0, 255], whatever the length of the analyser's buffer and whatever
\* signal it holds.
C29_BufferShape ==
    \A tap \in (IF audioData.src = "analyser" THEN TapSignals ELSE {"silence"}) :
       LET buf == Samples(audioData, tap)
       IN  /\ DOMAIN buf = 0..1023
           /\ \A pos \in 0..1023 : 0 <= buf[pos] /\ buf[pos] <= 255 * SampleOne

\* C29 witness: an animation frame has set the buffer from an analyser whose
\* buffer is sixteen times the 1024 entries.
C29_Witness ==
    isPlaying /\ audioData.src = "analyser" /\ audioData.len = 16384

\* C30: an animation frame with an analyser, while playing: the bytes are
\* taken by striding, at most 1024 of them; with at least 512 obtained the
\* buffer starts with the obtained bytes and each position from their count
\* up to 1023 holds the obtained byte at index (position mod 512); with fewer
\* than 512 the buffer is generateWaveform of the current parameters and
\* holds no byte of the analyser.
C30_TapStridedAndPadded ==
    [][(analyserRef /\ AnimationTick) =>
         LET obtained == downsampledLength(frequencyBinCount)
             step == IF frequencyBinCount >= 2048 THEN frequencyBinCount \div 1024 ELSE 1
         IN  /\ obtained <= 1024
             /\ IF obtained >= 512
                THEN \A tap \in TapSignals :
                        LET buf == Samples(audioData', tap)
                        IN  /\ audioData'.src = "analyser"
                            /\ DOMAIN buf = 0..1023
                            /\ \A pos \in 0..(obtained - 1) :
                                  buf[pos] = TimeDomainByte(tap, pos * step) * SampleOne
                            /\ \A pos \in obtained..1023 : buf[pos] = buf[pos % 512]
                ELSE audioData' = generateWaveform(frequency, waveType, amplitude)]_vars

\* C30 witness: an animation frame has set the buffer from the 512 bytes of
\* an analyser and padded it.
C30_Witness ==
    isPlaying /\ audioData.src = "analyser" /\ audioData.len = 512

----------------------------------------------------------------------------
(* C31..C39 *)

\* The 1024 samples generateWaveform draws for a type at an amplitude.
Drawn(type, amp) == [src |-> "generated", waveType |-> type, amplitude |-> amp, len |-> 0]

C32_NoOrphanedTicks ==
    /\ [](animationFrames <= 1)
    /\ []((~isPlaying \/ phase # "mounted") => animationFrames = 0)
    /\ [][AnimationTick => isPlaying /\ phase = "mounted"]_vars

\* C32 witness: the desktop engine has played and has been stopped: no frame
\* is pending.
C32_Witness ==
    /\ ~isPlaying /\ audioInitialized /\ phase = "mounted" /\ analyserRef
    /\ oscillatorRef = 0 /\ animationFrames = 0

\* The position of a touch inside the window: x clamped to 0..width.
Clamped(x, width) == IF x < 0 THEN 0 ELSE IF x > width THEN width ELSE x

\* C33: the touch mapping sends x = 0 to 20 Hz and x = width to 20000 Hz, is
\* non-decreasing in x, sends an x outside 0..width where it sends the nearest
\* edge, and every frequency it produces lies in 20..20000 Hz, so
\* updateFrequency accepts it: wherever the visualizer can be touched, a
\* touch on an edge sets the frequency to 20 and to 20000.
C33_TouchMapsRange ==
    [](Interactive => \A width \in Widths :
          LET xs == TouchXs(width) \ {undefined, NaN}
          IN  /\ touchFrequency(0, width) = 20 * FreqOne
              /\ touchFrequency(width, width) = 20000 * FreqOne
              /\ \A x1, x2 \in xs :
                    x1 <= x2 => touchFrequency(x1, width) <= touchFrequency(x2, width)
              /\ \A x \in xs :
                    touchFrequency(x, width) = touchFrequency(Clamped(x, width), width)
              /\ \A x \in TouchXs(width) :
                    /\ 20 * FreqOne <= touchFrequency(x, width)
                    /\ touchFrequency(x, width) <= 20000 * FreqOne
              /\ ENABLED (handleVisualizerTouch(0, width) /\ frequency' = 20)
              /\ ENABLED (handleVisualizerTouch(width, width) /\ frequency' = 20000))

\* C34: the touch maps x to 200 + (clamp(x, 0, width) / width) * 1800 Hz: the
\* left edge gives 200 Hz, the right edge 2000 Hz, a NaN or undefined x the
\* midpoint 1100 Hz, and a touch sets the frequency to that value.
C34_TouchMapsLinear ==
    [](Interactive => \A width \in Widths :
          /\ \A x \in TouchXs(width) \ {undefined, NaN} :
                Hertz(touchFrequency(x, width))
                   = 200 + (Clamped(x, width) * 1800) \div width
          /\ \A x \in {undefined, NaN} : touchFrequency(x, width) = 1100 * FreqOne
          /\ ENABLED (handleVisualizerTouch(0, width) /\ frequency' = 200)
          /\ ENABLED (handleVisualizerTouch(width, width) /\ frequency' = 2000)
          /\ ENABLED (handleVisualizerTouch(NaN, width) /\ frequency' = 1100))

\* C35: updateWaveType(k) always sets the waveform kind to k, playing or not
\* (so a call is always possible and leaves the kind at k); in a render that
\* is not playing it arms no restart timer and neither stops nor creates an
\* oscillator.
C35_KindAlwaysSet ==
    /\ [][\A newType \in WaveTypes :
            updateWaveType(newType) =>
               /\ waveType' = newType
               /\ ~isPlaying => UNCHANGED <<timers, waveformSwitchTimeoutRef,
                                            oscillatorRef, oscillators>>]_vars
    /\ [](\A newType \in WaveTypes :
            (Interactive /\ (isPlaying => Len(ClearTimeout) < MaxTimer)) =>
               ENABLED (updateWaveType(newType) /\ waveType' = newType))

\* C35 witness: the kind was set to triangle and then to square while the
\* engine, initialized, was stopped: nothing is armed and no oscillator lives.
C35_Witness ==
    /\ ~isPlaying /\ audioInitialized /\ gainNodeRef
    /\ waveType = "square" /\ audioData = Drawn("square", amplitude)
    /\ timers = <<>> /\ waveformSwitchTimeoutRef = "null"
    /\ oscillatorRef = 0 /\ oscillators = <<>>

\* C36: updateFrequency never recreates or interrupts the voice: across the
\* call oscillatorRef is the same, the oscillators are the same ones and none
\* is stopped (the frequency of one is all that may differ), no restart timer
\* is armed or cleared, and the waveform kind, the amplitude, the attenuation
\* level and isPlaying are unchanged.
C36_FrequencyKeepsVoice ==
    [][\A newFreq \in FrameFreqs :
          updateFrequency(newFreq) =>
             /\ oscillatorRef' = oscillatorRef
             /\ Len(oscillators') = Len(oscillators)
             /\ \A i \in 1..Len(oscillators) :
                   [oscillators'[i] EXCEPT !.frequency = 0]
                      = [oscillators[i] EXCEPT !.frequency = 0]
             /\ UNCHANGED <<timers, waveformSwitchTimeoutRef>>
             /\ UNCHANGED <<waveType, amplitude, highFreqAttenuation, isPlaying>>]_vars

\* C36 witness: the engine plays and updateFrequency has run twice on its one
\* oscillator, which lives on at the frequency of the render the second call
\* ran in.
C36_Witness ==
    /\ isPlaying /\ frequency = 1000
    /\ oscillatorRef # 0 /\ Len(oscillators) = 1
    /\ oscillators[oscillatorRef].frequency = 2000
    /\ waveType = "sine" /\ timers = <<>>

\* C37: a rejected setter call (updateFrequency with a value that is not
\* finite or lies outside 20..20000, updateAmplitude or
\* updateHighFreqAttenuation with a value that is not finite) returns with the
\* whole state as it was: the five parameters, the buffer, the oscillators and
\* their frequencies, the gain and the pending timers; and no setter call,
\* accepted or rejected, changes isPlaying.
C37_RejectedChangesNothing ==
    /\ [][\A x \in FrameFreqs :
            (~(Finite(x) /\ InRange(x)) /\ updateFrequency(x)) => UNCHANGED vars]_vars
    /\ [][\A x \in FrameAmps : (~Finite(x) /\ updateAmplitude(x)) => UNCHANGED vars]_vars
    /\ [][\A x \in FrameAtts :
            (~Finite(x) /\ updateHighFreqAttenuation(x)) => UNCHANGED vars]_vars
    /\ [][(\/ \E x \in FrameFreqs : updateFrequency(x)
           \/ \E x \in WaveTypes : updateWaveType(x)
           \/ \E x \in FrameAmps : updateAmplitude(x)
           \/ \E x \in FrameAtts : updateHighFreqAttenuation(x))
          => isPlaying' = isPlaying]_vars
    /\ [](Interactive =>
            /\ \A x \in {NaN, Infinity, 19, 20001} :
                  ENABLED (updateFrequency(x) /\ UNCHANGED vars)
            /\ \A x \in {NaN, NegInfinity} :
                  ENABLED (updateAmplitude(x) /\ UNCHANGED vars)
            /\ \A x \in {NaN, Infinity} :
                  ENABLED (updateHighFreqAttenuation(x) /\ UNCHANGED vars))

\* C37 witness: a state in which rejected calls return: the engine plays a
\* square the user has set up, its restart still pending.
C37_Witness ==
    /\ isPlaying /\ timers # <<>> /\ waveformSwitchTimeoutRef = "pending"
    /\ frequency = 2000 /\ waveType = "square" /\ amplitude = 10
    /\ highFreqAttenuation = 10 /\ gainNodeRef

\* C38: what generateWaveform draws does not depend on its frequency argument:
\* for every kind, amplitude and two frequencies the result is the same, so an
\* accepted updateFrequency that leaves a synthetic buffer leaves the one
\* drawn at the old frequency, and a synthetic buffer it found is unchanged.
C38_FrequencyNotDrawn ==
    /\ [](\A f1, f2 \in {20, 440, 1000, 2000, 20000}, kind \in WaveTypes, amp \in 0..10 :
             generateWaveform(f1, kind, amp) = generateWaveform(f2, kind, amp))
    /\ [][\A newFreq \in FrameFreqs :
            (Finite(newFreq) /\ InRange(newFreq) /\ newFreq # frequency
                /\ updateFrequency(newFreq) /\ audioData'.src = "generated") =>
               /\ audioData' = generateWaveform(frequency, waveType, amplitude)
               /\ audioData.src = "generated" => audioData' = audioData]_vars

\* C38 witness: the stopped engine shows the square drawn at full amplitude,
\* after updateFrequency has moved the frequency from 440 Hz to 1000 Hz.
C38_Witness ==
    /\ ~isPlaying /\ phase = "mounted" /\ frequency = 1000
    /\ waveType = "square" /\ amplitude = 10 /\ audioData = Drawn("square", 10)
    /\ ~audioInitialized

\* C39: waveformSwitchTimeoutRef tracks the pending restart: it is not null
\* exactly when a restart timer is pending or a restart callback is still
\* running (suspended at its await), so the ref is never null while a timer
\* that teardown would have to cancel is pending.
C39_RefTracksTimer ==
    (waveformSwitchTimeoutRef # "null")
       <=> (timers # <<>> \/ \E t \in BagToSet(inflight) : t.k = "restart")

====
